---- MODULE Spec2Model ----
(***************************************************************************)
(* Model of stac_fastapi/sfeos_helpers/database/utils.py: the refresh      *)
(* normaliser, the merge-document normaliser and the patch-to-script       *)
(* compiler (check_commands, remove_commands, add_commands, test_commands, *)
(* operations_to_script).  Statements are the very strings the f-strings   *)
(* of the source build.  ElasticPath, ESCommandSet and get_bool_env live   *)
(* in other modules of the package and are modelled from their contract.   *)
(***************************************************************************)
EXTENDS Integers, Sequences, FiniteSets, TLC

VARIABLES call, pc,
          ops, commands, params, source, source_bound, result, raised,
          data, operations,
          value, env, refresh, warned,
          container, from_index, outcome

vars == <<call, pc, ops, commands, params, source, source_bound, result,
          raised, data, operations, value, env, refresh, warned,
          container, from_index, outcome>>

compile_vars == <<ops, commands, params, source, source_bound, result, raised>>
merge_vars == <<data, operations>>
refresh_vars == <<value, env, refresh, warned>>
script_vars == <<container, from_index, outcome>>

(***************************************************************************)
(* Bounds                                                                  *)
(***************************************************************************)
MaxOps == 2

MaxSize == 3

MaxEntries == 3

Range(s) == {s[i] : i \in 1..Len(s)}

Pos(s, x) == IF x \in Range(s) THEN CHOOSE i \in 1..Len(s) : s[i] = x ELSE 0

Count(s, x) == Cardinality({i \in 1..Len(s) : s[i] = x})

(***************************************************************************)
(* Path descriptors.  A path string is given by its segments: the parent   *)
(* container (nest, "" when there is none), the key, and the array index   *)
(* (NoIndex when the final segment is a key).                              *)
(***************************************************************************)
NoIndex == -1

PathOf(nest, key, index) == [nest |-> nest, key |-> key, index |-> index]

NoPath == PathOf("", "", NoIndex)

Paths == {PathOf("", "x", NoIndex), PathOf("a", "b", NoIndex),
          PathOf("a", "c", NoIndex), PathOf("", "l", 0), PathOf("", "l", 1)}

Values == {1, 2}

ElasticPath(p) ==
    LET dotted == IF p.nest = "" THEN p.key ELSE p.nest \o "." \o p.key
        flat == p.nest \o p.key
        under == IF p.nest = "" THEN p.key ELSE p.nest \o "_" \o p.key
    IN  [nest |-> p.nest,
         key |-> p.key,
         index |-> p.index,
         path |-> IF p.index = NoIndex THEN dotted
                  ELSE dotted \o "." \o ToString(p.index),
         es_nest |-> IF p.nest = "" THEN "" ELSE "." \o p.nest,
         es_location |-> "." \o dotted,
         es_path |-> IF p.index = NoIndex THEN dotted
                     ELSE dotted \o "[" \o ToString(p.index) \o "]",
         param_key |-> IF p.index = NoIndex THEN flat
                       ELSE flat \o ToString(p.index),
         variable_name |-> IF p.index = NoIndex THEN under
                           ELSE under \o "_" \o ToString(p.index)]

(***************************************************************************)
(* ESCommandSet: insertion-ordered, adding a present statement is a no-op. *)
(***************************************************************************)
ESCommandSet_add(cmds, s) == IF s \in Range(cmds) THEN cmds ELSE Append(cmds, s)

Join(cmds) ==
    LET RECURSIVE J(_)
        J(n) == IF n = 0 THEN "" ELSE J(n - 1) \o cmds[n]
    IN  J(Len(cmds))

(***************************************************************************)
(* Patch operations                                                        *)
(***************************************************************************)
PatchRemove(path) ==
    [op |-> "remove", path |-> path, has_from |-> FALSE, from_ |-> NoPath,
     value |-> 0]

PatchAddReplaceTest(op, path, v) ==
    [op |-> op, path |-> path, has_from |-> FALSE, from_ |-> NoPath,
     value |-> v]

PatchMoveCopy(op, path, from) ==
    [op |-> op, path |-> path, has_from |-> TRUE, from_ |-> from, value |-> 0]

Operations ==
    {PatchRemove(p) : p \in Paths}
    \cup {PatchAddReplaceTest(o, p, v) :
            o \in {"add", "replace", "test"}, p \in Paths, v \in Values}
    \cup {PatchMoveCopy(o, p, f) : o \in {"move", "copy"}, p \in Paths, f \in Paths}

(***************************************************************************)
(* Statements built by the guard emitter and the mutators                  *)
(***************************************************************************)
NestGuard(path) ==
    "if (!ctx._source.containsKey('" \o path.nest \o "'))"
    \o "{Debug.explain('" \o path.nest \o " does not exist');}"

KeyGuard(path) ==
    "if (!ctx._source" \o path.es_nest \o ".containsKey('" \o path.key \o "'))"
    \o "{Debug.explain('" \o path.key \o "  does not exist in " \o path.nest
    \o "');}"

IndexGuard(path) ==
    "if ((ctx._source" \o path.es_location \o " instanceof ArrayList"
    \o " && ctx._source" \o path.es_location \o ".size() < "
    \o ToString(path.index) \o ")"
    \o " || (!(ctx._source" \o path.es_location \o " instanceof ArrayList)"
    \o " && !ctx._source" \o path.es_location \o ".containsKey('"
    \o ToString(path.index) \o "')))"
    \o "{Debug.explain('" \o path.path \o " does not exist');}"

RemoveStmt(path) ==
    IF path.index # NoIndex
    THEN "def " \o path.variable_name \o " = ctx._source" \o path.es_location
         \o ".remove(" \o ToString(path.index) \o ");"
    ELSE "def " \o path.variable_name \o " = ctx._source" \o path.es_nest
         \o ".remove('" \o path.key \o "');"

AddStmt(op, path, val) ==
    IF path.index # NoIndex
    THEN "if (ctx._source" \o path.es_location \o " instanceof ArrayList)"
         \o "{ctx._source" \o path.es_location \o "."
         \o (IF op \in {"add", "move"} THEN "add" ELSE "set")
         \o "(" \o ToString(path.index) \o ", " \o val \o ")}"
         \o "else{ctx._source." \o path.es_path \o " = " \o val \o "}"
    ELSE "ctx._source." \o path.es_path \o " = " \o val \o ";"

TestStmt(path, val, json_value) ==
    "if (ctx._source." \o path.es_path \o " != " \o val \o ")"
    \o "{Debug.explain('Test failed `" \o path.path \o "` | "
    \o json_value \o " != ' + ctx._source." \o path.es_path \o ");}"

\* check_commands with the parent guard appended past the set's membership test
check_commands_plain_append(cmds, op, path, from_path) ==
    LET c1 == IF path.nest # ""
              THEN Append(cmds, NestGuard(path)) ELSE cmds
        c2 == IF (path.index # NoIndex /\ path.index # 0)
                 \/ op \in {"remove", "replace", "test"} \/ from_path
              THEN ESCommandSet_add(c1, KeyGuard(path)) ELSE c1
        c3 == IF from_path /\ path.index # NoIndex
              THEN ESCommandSet_add(c2, IndexGuard(path)) ELSE c2
    IN  c3

(***************************************************************************)
(* check_commands: an index of 0 is falsy in the first disjunct of the     *)
(* key-guard condition.                                                    *)
(***************************************************************************)
check_commands(cmds, op, path, from_path) ==
    LET c1 == IF path.nest # ""
              THEN ESCommandSet_add(cmds, NestGuard(path)) ELSE cmds
        c2 == IF (path.index # NoIndex /\ path.index # 0)
                 \/ op \in {"remove", "replace", "test"} \/ from_path
              THEN ESCommandSet_add(c1, KeyGuard(path)) ELSE c1
        c3 == IF from_path /\ path.index # NoIndex
              THEN ESCommandSet_add(c2, IndexGuard(path)) ELSE c2
    IN  c3

remove_commands(cmds, path) == ESCommandSet_add(cmds, RemoveStmt(path))

\* add_commands' value choice with move reading the live source location
AddValue_live(operation, path, has_from, from_path) ==
    IF has_from
    THEN "ctx._source." \o from_path.es_path
    ELSE "params." \o path.param_key

AddValue(operation, path, has_from, from_path) ==
    IF has_from
    THEN IF operation.op = "move" THEN from_path.variable_name
         ELSE "ctx._source." \o from_path.es_path
    ELSE "params." \o path.param_key

SetParam(prm, k, v) ==
    [x \in (DOMAIN prm) \cup {k} |-> IF x = k THEN v ELSE prm[x]]

add_commands(cmds, operation, path, has_from, from_path, prm) ==
    [commands |-> ESCommandSet_add(cmds,
                    AddStmt(operation.op, path,
                            AddValue(operation, path, has_from, from_path))),
     params |-> IF has_from THEN prm
                ELSE SetParam(prm, path.param_key, operation.value)]

test_commands(cmds, operation, path, prm) ==
    [commands |-> ESCommandSet_add(cmds,
                    TestStmt(path, "params." \o path.param_key,
                             ToString(operation.value))),
     params |-> SetParam(prm, path.param_key, operation.value)]

(***************************************************************************)
(* One iteration of the loop of operations_to_script                       *)
(***************************************************************************)
LoopBody(cmds, prm, operation) ==
    LET path == ElasticPath(operation.path)
        has_from == operation.has_from
        from_path == ElasticPath(operation.from_)
        c1 == check_commands(cmds, operation.op, path, FALSE)
        c2 == IF has_from
              THEN check_commands(c1, operation.op, from_path, TRUE) ELSE c1
        c3 == IF operation.op \in {"remove", "move"}
              THEN remove_commands(c2, IF has_from THEN from_path ELSE path)
              ELSE c2
        s4 == IF operation.op \in {"add", "replace", "copy", "move"}
              THEN add_commands(c3, operation, path, has_from, from_path, prm)
              ELSE [commands |-> c3, params |-> prm]
        s5 == IF operation.op = "test"
              THEN test_commands(s4.commands, operation, path, s4.params)
              ELSE s4
    IN  s5

EmptyParams == [k \in {} |-> 0]

NoResult == [source |-> "", lang |-> "", params |-> EmptyParams]

Iterate ==
    /\ call = "operations_to_script" /\ pc = "loop"
    /\ Len(ops) < MaxOps
    /\ \E operation \in Operations :
          LET s == LoopBody(commands, params, operation)
          IN  /\ ops' = Append(ops, operation)
              /\ commands' = s.commands
              /\ params' = s.params
              /\ source' = Join(s.commands)
              /\ source_bound' = TRUE
    /\ UNCHANGED <<call, pc, result, raised, merge_vars, refresh_vars,
                   script_vars>>

Return ==
    /\ call = "operations_to_script" /\ pc = "loop"
    /\ pc' = "done"
    /\ IF source_bound
       THEN /\ result' = [source |-> source, lang |-> "painless",
                          params |-> params]
            /\ raised' = ""
       ELSE /\ result' = NoResult
            /\ raised' = "UnboundLocalError"
    /\ UNCHANGED <<call, ops, commands, params, source, source_bound,
                   merge_vars, refresh_vars, script_vars>>

(***************************************************************************)
(* validate_refresh.  A request value is a boolean or a string.           *)
(***************************************************************************)
BoolValue(b) == [is_bool |-> TRUE, b |-> b, s |-> ""]

StrValue(s) == [is_bool |-> FALSE, b |-> FALSE, s |-> s]

RefreshStrings ==
    {"true", "false", "1", "0", "yes", "no", "y", "n",
     "TRUE", "True", "FALSE", "Yes", "NO", "Y", "N",
     "wait_for", "WAIT_FOR", "Wait_For", "garbage", "GARBAGE", ""}

RefreshValues ==
    {BoolValue(b) : b \in BOOLEAN} \cup {StrValue(s) : s \in RefreshStrings}

EnvSettings == {"", "true", "false", "1", "0"}

lower(s) ==
    CASE s = "TRUE" -> "true"
      [] s = "True" -> "true"
      [] s = "FALSE" -> "false"
      [] s = "Yes" -> "yes"
      [] s = "NO" -> "no"
      [] s = "Y" -> "y"
      [] s = "N" -> "n"
      [] s = "WAIT_FOR" -> "wait_for"
      [] s = "Wait_For" -> "wait_for"
      [] s = "GARBAGE" -> "garbage"
      [] OTHER -> s

TrueStrings == {"true", "1", "yes", "y"}

get_bool_env(setting, default) ==
    IF setting = ""
    THEN IF default.is_bool THEN default.b ELSE lower(default.s) \in TrueStrings
    ELSE lower(setting) \in TrueStrings

validate_refresh(v, setting) ==
    IF v.is_bool \/ v.s \in {"true", "false", "1", "0", "yes", "no", "y", "n"}
    THEN [refresh |-> IF get_bool_env(setting, v) THEN "true" ELSE "false",
          warned |-> FALSE]
    ELSE IF lower(v.s) = "wait_for"
         THEN [refresh |-> "wait_for", warned |-> FALSE]
         ELSE [refresh |-> "false", warned |-> TRUE]

ValidateRefresh ==
    /\ call = "validate_refresh" /\ pc = "start"
    /\ refresh' = validate_refresh(value, env).refresh
    /\ warned' = validate_refresh(value, env).warned
    /\ pc' = "done"
    /\ UNCHANGED <<call, value, env, compile_vars, merge_vars, script_vars>>

(***************************************************************************)
(* merge_to_operations.  A mapping is the sequence of its entries in       *)
(* iteration order; an entry holds null, a nested mapping or a value.      *)
(***************************************************************************)
Keys == {"a", "b", "c"}

NullEntry(k) == [key |-> k, kind |-> "null", val |-> 0, sub |-> <<>>]

ValueEntry(k, v) == [key |-> k, kind |-> "value", val |-> v, sub |-> <<>>]

DictEntry(k, d) == [key |-> k, kind |-> "dict", val |-> 0, sub |-> d]

RECURSIVE DocSize(_)
DocSize(d) ==
    IF d = <<>> THEN 0 ELSE 1 + DocSize(Head(d).sub) + DocSize(Tail(d))

RECURSIVE DocsOfSize(_)
DocsOfSize(n) ==
    IF n = 0 THEN {<<>>}
    ELSE LET EntriesOfSize(m) ==
                 IF m = 1
                 THEN {NullEntry(k) : k \in Keys}
                      \cup {ValueEntry(k, v) : k \in Keys, v \in Values}
                      \cup {DictEntry(k, <<>>) : k \in Keys}
                 ELSE {DictEntry(k, d) : k \in Keys, d \in DocsOfSize(m - 1)}
         IN  {<<e>> : e \in EntriesOfSize(n)}
             \cup UNION {{<<q[1], q[2]>> :
                            q \in {r \in EntriesOfSize(m) \X EntriesOfSize(n - m) :
                                     r[1].key # r[2].key}} :
                         m \in 1..(n - 1)}

Docs(n) == UNION {DocsOfSize(m) : m \in 0..n}

\* merge_to_operations with the nested operations appended unprefixed
RECURSIVE merge_to_operations_unprefixed(_)
merge_to_operations_unprefixed(d) ==
    IF d = <<>> THEN <<>>
    ELSE LET e == Head(d)
             first ==
                 IF e.kind = "null" THEN <<PatchRemove(e.key)>>
                 ELSE IF e.kind = "dict"
                      THEN merge_to_operations_unprefixed(e.sub)
                      ELSE <<PatchAddReplaceTest("add", e.key, e.val)>>
         IN  first \o merge_to_operations_unprefixed(Tail(d))

RECURSIVE merge_to_operations(_)
merge_to_operations(d) ==
    IF d = <<>> THEN <<>>
    ELSE LET e == Head(d)
             nested == merge_to_operations(e.sub)
             first ==
                 IF e.kind = "null" THEN <<PatchRemove(e.key)>>
                 ELSE IF e.kind = "dict"
                      THEN [i \in 1..Len(nested) |->
                              [nested[i] EXCEPT !.path = e.key \o "." \o @]]
                      ELSE <<PatchAddReplaceTest("add", e.key, e.val)>>
         IN  first \o merge_to_operations(Tail(d))

Merge ==
    /\ call = "merge_to_operations" /\ pc = "start"
    /\ operations' = merge_to_operations(data)
    /\ data' = data
    /\ pc' = "done"
    /\ UNCHANGED <<call, compile_vars, refresh_vars, script_vars>>

(***************************************************************************)
(* Execution of the source-side index guard and of the Remove statement    *)
(* that follows it, on the container the location accessor denotes.        *)
(***************************************************************************)
Containers ==
    [is_array : BOOLEAN, size : 0..MaxSize, has_key : BOOLEAN]

NoContainer == [is_array |-> FALSE, size |-> 0, has_key |-> FALSE]

IndexGuardExplains(c, index) ==
    \/ c.is_array /\ c.size < index
    \/ ~c.is_array /\ ~c.has_key

RemoveAt(c, index) ==
    IF c.is_array /\ index >= c.size THEN "IndexOutOfBoundsException"
    ELSE "removed"

RunScript ==
    /\ call = "script" /\ pc = "start"
    /\ outcome' = IF IndexGuardExplains(container, from_index)
                  THEN "explained" ELSE RemoveAt(container, from_index)
    /\ pc' = "done"
    /\ UNCHANGED <<call, container, from_index, compile_vars, merge_vars,
                   refresh_vars>>

(***************************************************************************)
(* Specification                                                           *)
(***************************************************************************)
NoValue == BoolValue(FALSE)

InitCompile ==
    /\ ops = <<>> /\ commands = <<>> /\ params = EmptyParams
    /\ source = "" /\ source_bound = FALSE
    /\ result = NoResult /\ raised = ""

Init ==
    /\ call \in {"operations_to_script", "merge_to_operations",
                 "validate_refresh", "script"}
    /\ pc = IF call = "operations_to_script" THEN "loop" ELSE "start"
    /\ InitCompile
    /\ operations = <<>>
    /\ refresh = "" /\ warned = FALSE
    /\ outcome = ""
    /\ IF call = "merge_to_operations" THEN data \in Docs(MaxEntries)
       ELSE data = <<>>
    /\ IF call = "validate_refresh"
       THEN value \in RefreshValues /\ env \in EnvSettings
       ELSE value = NoValue /\ env = ""
    /\ IF call = "script"
       THEN container \in Containers /\ from_index \in 0..MaxSize
       ELSE container = NoContainer /\ from_index = 0

Next == Iterate \/ Return \/ ValidateRefresh \/ Merge \/ RunScript

Spec == Init /\ [][Next]_vars

(***************************************************************************)
(* Vocabulary of the properties                                            *)
(***************************************************************************)
Compiling == call = "operations_to_script"

Compiled == Compiling /\ pc = "done"

Descriptors == {ElasticPath(p) : p \in Paths}

ValueRefs ==
    {"params." \o d.param_key : d \in Descriptors}
    \cup {d.variable_name : d \in Descriptors}
    \cup {"ctx._source." \o d.es_path : d \in Descriptors}

GuardStatements ==
    {NestGuard(d) : d \in Descriptors} \cup {KeyGuard(d) : d \in Descriptors}
    \cup {IndexGuard(d) : d \in Descriptors}

MutationStatements ==
    {RemoveStmt(d) : d \in Descriptors}
    \cup {AddStmt(o, d, v) :
            o \in {"add", "replace", "copy", "move"}, d \in Descriptors,
            v \in ValueRefs}

IsMutation(s) == s \in MutationStatements

\* the guards that address the path of descriptor d
GuardsOf(d) ==
    (IF d.nest # "" THEN {NestGuard(d)} ELSE {}) \cup {KeyGuard(d)}
    \cup (IF d.index # NoIndex THEN {IndexGuard(d)} ELSE {})

\* the path an operation removes from, and the statement that does it
RemovedPath(o) == ElasticPath(IF o.has_from THEN o.from_ ELSE o.path)

\* the Add-or-replace statement of an operation
AddOf(o) ==
    AddStmt(o.op, ElasticPath(o.path),
            IF o.op = "move" THEN ElasticPath(o.from_).variable_name
            ELSE IF o.op = "copy"
                 THEN "ctx._source." \o ElasticPath(o.from_).es_path
                 ELSE "params." \o ElasticPath(o.path).param_key)

\* the mutation statements of one operation, in the order of its steps
MutationsOf(o) ==
    (IF o.op \in {"remove", "move"} THEN <<RemoveStmt(RemovedPath(o))>>
     ELSE <<>>)
    \o (IF o.op \in {"add", "replace", "copy", "move"} THEN <<AddOf(o)>>
        ELSE <<>>)

\* the mutation statements of one operation that change the path of d
MutationsAt(o, d) ==
    (IF o.op \in {"remove", "move"} /\ RemovedPath(o) = d
     THEN {RemoveStmt(d)} ELSE {})
    \cup (IF o.op \in {"add", "replace", "copy", "move"}
             /\ ElasticPath(o.path) = d
          THEN {AddOf(o)} ELSE {})

RECURSIVE AllMutations(_)
AllMutations(os) ==
    IF os = <<>> THEN <<>> ELSE MutationsOf(Head(os)) \o AllMutations(Tail(os))

LiteralOps == {"add", "replace", "test"}

(***************************************************************************)
(* C1: operations_to_script called with the empty list raises nothing and  *)
(* returns {source: "", lang: "painless", params: {}}.                     *)
(***************************************************************************)
C1_EmptyListCompiles ==
    (Compiled /\ ops = <<>>) =>
        /\ raised = ""
        /\ result = [source |-> "", lang |-> "painless", params |-> EmptyParams]

(***************************************************************************)
(* C2: after compiling, every add, replace and test of the list finds its  *)
(* own value in params under the key its statement references.             *)
(***************************************************************************)
C2_OwnBinding ==
    Compiled =>
        \A i \in 1..Len(ops) :
            ops[i].op \in LiteralOps =>
                LET k == ElasticPath(ops[i].path).param_key
                IN  k \in DOMAIN params /\ params[k] = ops[i].value

(***************************************************************************)
(* C3: in the compiled sequence every guard of a path stands before every  *)
(* Remove / Add-or-replace statement of that path, whichever operations    *)
(* of the list emitted them.                                               *)
(***************************************************************************)
C3_GuardsBeforeMutations ==
    Compiling =>
        \A d \in Descriptors : \A i \in 1..Len(ops) :
            \A g \in GuardsOf(d) \cap Range(commands) :
                \A m \in MutationsAt(ops[i], d) :
                    Pos(commands, g) < Pos(commands, m)

(***************************************************************************)
(* C4: for every move from x to y the Remove at x stands strictly before   *)
(* the Add at y, that Add reads the scratch variable of x, and the move    *)
(* puts nothing into params.                                               *)
(***************************************************************************)
C4_MoveOrdering ==
    Compiling =>
        /\ \A i \in 1..Len(ops) :
              ops[i].op = "move" =>
                  LET x == ElasticPath(ops[i].from_)
                      y == ElasticPath(ops[i].path)
                      r == RemoveStmt(x)
                      a == AddStmt("move", y, x.variable_name)
                  IN  /\ Pos(commands, r) > 0
                      /\ Pos(commands, r) < Pos(commands, a)
        /\ DOMAIN params =
              {ElasticPath(ops[i].path).param_key :
                 i \in {j \in 1..Len(ops) : ops[j].op \in LiteralOps}}

C4_Witness ==
    /\ Compiled /\ Len(ops) = 2
    /\ ops[1].op = "add" /\ ops[2].op = "move"
    /\ ops[2].from_ = ops[1].path /\ ops[2].path # ops[2].from_
    /\ raised = "" /\ result.source = source

(***************************************************************************)
(* C5: every distinct guard occurs exactly once in the compiled sequence,  *)
(* where it was first emitted (the sequence only grows at its end); the    *)
(* parent guard of a path with a parent is there exactly once.             *)
(***************************************************************************)
C5_GuardsOnce ==
    /\ \A i, j \in 1..Len(commands) :
          (i # j /\ commands[i] = commands[j]) =>
              commands[i] \notin GuardStatements
    /\ \A i \in 1..Len(ops) :
          \A q \in {ops[i].path} \cup
                   (IF ops[i].has_from THEN {ops[i].from_} ELSE {}) :
              q.nest # "" => Count(commands, NestGuard(ElasticPath(q))) = 1

C5_PositionsKept ==
    \A k \in 1..Len(commands) :
        k <= Len(commands') /\ commands'[k] = commands[k]

C5_GuardDedup == [](Compiling => C5_GuardsOnce) /\ [][C5_PositionsKept]_vars

C5_Witness ==
    /\ Compiled /\ Len(ops) = 2
    /\ ops[1].path = PathOf("a", "b", NoIndex)
    /\ ops[2].path = PathOf("a", "c", NoIndex)
    /\ Pos(commands, NestGuard(ElasticPath(ops[1].path))) = 1
    /\ Count(commands, NestGuard(ElasticPath(ops[2].path))) = 1
    /\ Len(commands) >= 3

(***************************************************************************)
(* C6: merge_to_operations returns, in depth-first iteration order, one    *)
(* remove per null leaf and one add (with the value) per other leaf, each  *)
(* at the dot-joined path of the leaf, and leaves its input as it was.     *)
(***************************************************************************)
Positions ==
    UNION {[1..n -> 1..2] : n \in 1..MaxEntries}

RECURSIVE EntryAt(_, _)
EntryAt(d, pos) ==
    IF pos[1] > Len(d) THEN NullEntry("")
    ELSE IF Len(pos) = 1 THEN d[pos[1]]
         ELSE IF d[pos[1]].kind = "dict"
              THEN EntryAt(d[pos[1]].sub, Tail(pos))
              ELSE NullEntry("")

RECURSIVE DottedPath(_, _)
DottedPath(d, pos) ==
    IF Len(pos) = 1 THEN d[pos[1]].key
    ELSE d[pos[1]].key \o "." \o DottedPath(d[pos[1]].sub, Tail(pos))

LeafPositions(d) ==
    {pos \in Positions :
        EntryAt(d, pos).key # "" /\ EntryAt(d, pos).kind # "dict"}

\* pos comes before q in depth-first order
Before(pos, q) ==
    \E k \in 1..Len(pos) :
        /\ k <= Len(q)
        /\ \A j \in 1..(k - 1) : pos[j] = q[j]
        /\ pos[k] < q[k]

Rank(d, pos) == 1 + Cardinality({q \in LeafPositions(d) : Before(q, pos)})

C6_MergeFlattens ==
    (call = "merge_to_operations" /\ pc = "done") =>
        /\ Len(operations) = Cardinality(LeafPositions(data))
        /\ \A pos \in LeafPositions(data) :
              LET e == EntryAt(data, pos)
                  o == operations[Rank(data, pos)]
              IN  /\ o.path = DottedPath(data, pos)
                  /\ o.op = IF e.kind = "null" THEN "remove" ELSE "add"
                  /\ e.kind = "value" => o.value = e.val
                  /\ ~o.has_from

C6_InputKept == data' = data

C6_Merge == [] C6_MergeFlattens /\ [][C6_InputKept]_vars

C6_Witness ==
    /\ call = "merge_to_operations" /\ pc = "done"
    /\ data = <<DictEntry("a", <<ValueEntry("b", 1), NullEntry("c")>>)>>
    /\ operations = <<PatchAddReplaceTest("add", "a.b", 1), PatchRemove("a.c")>>

(***************************************************************************)
(* C7: any casing of a boolean-like string resolves like its lowercase     *)
(* form, through the default flag and without a warning.                   *)
(***************************************************************************)
BoolLike == {"true", "false", "1", "0", "yes", "no", "y", "n"}

C7_BoolLikeAnyCase ==
    (call = "validate_refresh" /\ pc = "done") =>
        /\ refresh \in {"true", "false", "wait_for"}
        /\ (~value.is_bool /\ lower(value.s) \in BoolLike) =>
              /\ ~warned
              /\ refresh = validate_refresh(StrValue(lower(value.s)), env).refresh

(***************************************************************************)
(* C8: every operation whose path addresses an array index, index 0        *)
(* included, has the key/index-existence guard of that path emitted.       *)
(***************************************************************************)
C8_IndexGuarded ==
    Compiling =>
        \A i \in 1..Len(ops) :
            ops[i].path.index # NoIndex =>
                KeyGuard(ElasticPath(ops[i].path)) \in Range(commands)

(***************************************************************************)
(* C9: on an array-like container whose size is at most the index, the     *)
(* source-side guard aborts with its explanation before the Remove runs;   *)
(* the script goes on only if the array is longer than the index or the    *)
(* non-array contains the index as a key.                                  *)
(***************************************************************************)
C9_ShortArrayExplained ==
    (call = "script" /\ pc = "done") =>
        /\ (container.is_array /\ container.size <= from_index) =>
              outcome = "explained"
        /\ outcome # "explained" =>
              \/ container.is_array /\ container.size > from_index
              \/ ~container.is_array /\ container.has_key

(***************************************************************************)
(* C10: the compiled sequence holds the mutation statements of all the     *)
(* mutating steps of the list, one per step, in input order.               *)
(***************************************************************************)
C10_MutationsKept ==
    Compiling => SelectSeq(commands, IsMutation) = AllMutations(ops)
====
